---- MODULE Spec2Model ----
(***************************************************************************)
(* tilequeue/queue/sqs.py: SqsQueue, the dedup-gated work queue of tile     *)
(* coordinates.  The queue composes an SQS queue (boto) with a Redis set    *)
(* ("tilequeue.in-flight").  Each client process runs SqsQueue methods;     *)
(* every call to Redis or SQS is one atomic step, so that calls of          *)
(* different processes interleave between those steps.                      *)
(***************************************************************************)
EXTENDS Integers, Sequences, FiniteSets, TLC

VARIABLES
    is_seeding,   \* SqsQueue.is_seeding, fixed by the constructor
    index,        \* the Redis set self.inflight_key: a set of dedup keys
    msgs,         \* the SQS queue: msgs[h] = [body, st], h the receipt handle
    pc,           \* pc[p]: where process p is inside its current method
    local,        \* local[p]: arguments and local variables of that method
    ret,          \* ret[p]: what the last finished method returned
    exc,          \* exc[p]: the exception the last method ended with, or ""
    held,         \* held[p]: the message objects read() has given to p
    calls,        \* calls[p]: the Redis/SQS calls made by the current method
    cur,          \* cur[p]: the current (or last) method and its arguments
    prev,         \* prev[p]: the method finished before cur[p]
    history       \* whether ret, exc, calls, cur and prev outlive the method

vars ==
    <<is_seeding, index, msgs, pc, local, ret, exc, held, calls, cur, prev, history>>

-----------------------------------------------------------------------------
(* Bounds of the model.                                                    *)

NumCoords == 2        \* distinct coordinates clients of Spec and SpecSeq use
NumProcs == 2         \* concurrent client processes of Spec
MaxMsgs == 2          \* messages ever written in Spec and SpecSeq
MaxList == 2          \* length of enqueue_batch inputs in Spec and SpecSeq
MaxRead == 2          \* largest max_to_read in Spec and SpecSeq
NumBatchCoords == 12  \* distinct coordinates in SpecBatch and SpecAck
MaxBatchList == 21    \* length of enqueue_batch inputs in SpecBatch
MaxBatchMsgs == 22    \* messages ever written in SpecBatch
MaxZoom == 20         \* the largest zoom of the coordinates of SpecKey

-----------------------------------------------------------------------------
(* tilequeue.tile: the coordinate codec.  A body is the text                *)
(* "<zoom>/<column>/<row>", modelled as its characters: a digit is its      *)
(* value, Slash is "/".                                                     *)

Slash == 10

Coord(z, x, y) == [zoom |-> z, column |-> x, row |-> y]

None == Coord(-1, -1, -1)

\* The i-th valid coordinate (0 <= column, row < 2^zoom), by zoom, column, row.
CoordAt(i) ==
    LET z == CHOOSE k \in 0 .. 12 :
                 ((4 ^ k) - 1) \div 3 < i /\ i <= ((4 ^ (k + 1)) - 1) \div 3
        j == i - 1 - (((4 ^ z) - 1) \div 3)
    IN  Coord(z, j \div (2 ^ z), j % (2 ^ z))

RECURSIVE DigitsOf(_)
DigitsOf(n) == IF n < 10 THEN <<n>> ELSE DigitsOf(n \div 10) \o <<n % 10>>

serialize_coord(c) ==
    DigitsOf(c.zoom) \o <<Slash>> \o DigitsOf(c.column) \o <<Slash>> \o DigitsOf(c.row)

RECURSIVE Fields(_)
\* The "/"-separated fields of a body.
Fields(s) ==
    IF \A i \in 1 .. Len(s) : s[i] # Slash THEN <<s>>
    ELSE LET i == CHOOSE j \in 1 .. Len(s) :
                      s[j] = Slash /\ \A k \in 1 .. (j - 1) : s[k] # Slash
         IN  <<SubSeq(s, 1, i - 1)>> \o Fields(SubSeq(s, i + 1, Len(s)))

RECURSIVE ValueOf(_)
ValueOf(d) ==
    IF Len(d) = 0 THEN 0 ELSE 10 * ValueOf(SubSeq(d, 1, Len(d) - 1)) + d[Len(d)]

IsNumber(d) == Len(d) > 0 /\ \A i \in 1 .. Len(d) : d[i] \in 0 .. 9

\* Faulty variant: the row is read before the column.
deserialize_coord_row_first(s) ==
    LET f == Fields(s)
    IN  IF Len(f) = 3 /\ \A i \in 1 .. 3 : IsNumber(f[i])
        THEN Coord(ValueOf(f[1]), ValueOf(f[3]), ValueOf(f[2]))
        ELSE None

deserialize_coord(s) ==
    LET f == Fields(s)
    IN  IF Len(f) = 3 /\ \A i \in 1 .. 3 : IsNumber(f[i])
        THEN Coord(ValueOf(f[1]), ValueOf(f[2]), ValueOf(f[3]))
        ELSE None

\* Faulty variant: the column is cut to its 16 low bits.
coord_marshall_int_short(c) ==
    << c.row \div 256, 8192 * (c.row % 256), c.zoom + 32 * (c.column % 65536) >>

\* The dedup key: zoom in the 5 low bits, then 29 bits of column, then 29
\* bits of row.  The 63-bit value is kept as three 21-bit limbs, high first.
coord_marshall_int(c) ==
    << c.row \div 256,
       (c.column \div 65536) + 8192 * (c.row % 256),
       c.zoom + 32 * (c.column % 65536) >>

-----------------------------------------------------------------------------
(* The collaborators: Redis set commands and SQS queue calls.               *)

BatchCap == 10        \* entries SQS accepts in one batch call

sismember(k) == k \in index
sadd(ks) == index \cup ks
srem(ks) == index \ ks

Message(body) == [body |-> body, st |-> "visible"]

Handles == 1 .. Len(msgs)
Visible == { h \in Handles : msgs[h].st = "visible" }
Live == { h \in Handles : msgs[h].st # "deleted" }

\* Queue.write / Queue.write_batch: the bodies are appended, visible.
write(bodies) == msgs \o [i \in 1 .. Len(bodies) |-> Message(bodies[i])]

\* Queue.delete_message / delete_message_batch: a deleted message is gone;
\* deleting one that is gone already changes nothing.
delete(hs) ==
    [h \in Handles |-> IF h \in hs THEN [msgs[h] EXCEPT !.st = "deleted"] ELSE msgs[h]]

RECURSIVE SetToSeq(_)
\* A set of handles in ascending order.
SetToSeq(S) ==
    IF S = {} THEN <<>>
    ELSE LET m == CHOOSE x \in S : \A y \in S : x <= y
         IN  <<m>> \o SetToSeq(S \ {m})

Min(a, b) == IF a < b THEN a ELSE b

\* Queue.get_messages(n): SQS hands out visible messages in no fixed order.
\* The visible messages, taken cyclically from the one `start`, up to n.
Receive(n, start) ==
    LET v == SetToSeq(Visible)
        k == Len(v)
        at == CHOOSE i \in 1 .. k : v[i] = start
    IN  [i \in 1 .. Min(n, k) |-> v[((at + i - 2) % k) + 1]]

Range(s) == { s[i] : i \in 1 .. Len(s) }

hide(hs) ==
    [h \in Handles |-> IF h \in hs THEN [msgs[h] EXCEPT !.st = "hidden"] ELSE msgs[h]]

-----------------------------------------------------------------------------
(* Bookkeeping of a method call.                                            *)

Procs == 1 .. NumProcs

NoLocal ==
    [coord |-> None, coords |-> <<>>, buffer |-> <<>>, n_queued |-> 0,
     n_in_flight |-> 0, pos |-> 1, final |-> FALSE, messages |-> <<>>,
     max_to_read |-> 0, n |-> 0]

\* cur[p]: the method, its arguments, and the index as it was at the call.
NoCall == [op |-> "none", coords |-> <<>>, messages |-> <<>>, n |-> 0, index0 |-> {}]

\* prev[p]: the method before, its arguments, and how it ended.
Summary(c, e, w) ==
    [op |-> c.op, coords |-> c.coords, messages |-> c.messages, n |-> c.n, exc |-> e,
     writes |-> w]

\* One Redis or SQS call that changes state: its name, the keys and the
\* handles it was given, how many entries it carried and how many members
\* or messages it changed.
Call(name, ks, hs, n, ch) == [c |-> name, ks |-> ks, hs |-> hs, n |-> n, ch |-> ch]

\* The messages the calls cl wrote to the queue.
Written(cl) ==
    UNION { cl[i].hs : i \in { j \in 1 .. Len(cl) : cl[j].c \in {"write", "write_batch"} } }

\* Process p enters method op.
Enter(p, op, cs, hs, n, l, label) ==
    /\ pc[p] = "idle"
    /\ pc' = [pc EXCEPT ![p] = label]
    /\ local' = [local EXCEPT ![p] = l]
    /\ cur' = [cur EXCEPT ![p] =
                 [op |-> op, coords |-> cs, messages |-> hs, n |-> n, index0 |-> index]]
    /\ prev' = [prev EXCEPT ![p] = IF history
                                    THEN Summary(cur[p], exc[p], Cardinality(Written(calls[p])))
                                    ELSE @]
    /\ calls' = [calls EXCEPT ![p] = <<>>]
    /\ ret' = [ret EXCEPT ![p] = <<>>]
    /\ exc' = [exc EXCEPT ![p] = "running"]
    /\ UNCHANGED <<is_seeding, index, msgs, held, history>>

\* Process p leaves its method with result r, or with exception e, having
\* made the calls cl.
Leave(p, r, e, cl) ==
    /\ pc' = [pc EXCEPT ![p] = "idle"]
    /\ local' = [local EXCEPT ![p] = NoLocal]
    /\ ret' = [ret EXCEPT ![p] = IF history THEN r ELSE <<>>]
    /\ exc' = [exc EXCEPT ![p] = IF history THEN e ELSE ""]
    /\ calls' = [calls EXCEPT ![p] = IF history THEN cl ELSE <<>>]
    /\ cur' = [cur EXCEPT ![p] = IF history THEN @ ELSE NoCall]
    /\ UNCHANGED <<is_seeding, prev, history>>

\* Process p goes on to label, having made the calls cl.
Goto(p, label, cl) ==
    /\ pc' = [pc EXCEPT ![p] = label]
    /\ calls' = [calls EXCEPT ![p] = cl]
    /\ UNCHANGED <<is_seeding, ret, exc, cur, prev, history>>

Logged(p, call) == Append(calls[p], call)

-----------------------------------------------------------------------------
(* SqsQueue.                                                                *)

\* Faulty variant: the membership test is made also when seeding.
_inflight_always_checked(c) == sismember(coord_marshall_int(c))

\* Faulty variant: the membership test is never made.
_inflight_skipped(c) == FALSE

_inflight(c) == (~is_seeding) /\ sismember(coord_marshall_int(c))

\* enqueue(coord), called.
enqueue(p, c) ==
    Enter(p, "enqueue", <<c>>, <<>>, 0, [NoLocal EXCEPT !.coord = c], "enqueue_inflight")

\* enqueue: `if not self._inflight(coord)`.
enqueue_inflight(p) ==
    /\ pc[p] = "enqueue_inflight"
    /\ IF _inflight(local[p].coord)
       THEN Leave(p, <<>>, "", calls[p])
       ELSE Goto(p, "enqueue_write", calls[p]) /\ UNCHANGED local
    /\ UNCHANGED <<index, msgs, held>>

\* Faulty variant: the membership test is made again right before the push.
enqueue_write_rechecked(p) ==
    /\ pc[p] = "enqueue_write"
    /\ IF _inflight(local[p].coord)
       THEN /\ Leave(p, <<>>, "", calls[p])
            /\ UNCHANGED msgs
       ELSE /\ msgs' = write(<<serialize_coord(local[p].coord)>>)
            /\ Goto(p, "enqueue_add_to_flight",
                    Logged(p, Call("write", {coord_marshall_int(local[p].coord)},
                                   {Len(msgs) + 1}, 1, 1)))
            /\ UNCHANGED local
    /\ UNCHANGED <<index, held>>

\* enqueue: `self.sqs_queue.write(message)`.
enqueue_write(p) ==
    /\ pc[p] = "enqueue_write"
    /\ msgs' = write(<<serialize_coord(local[p].coord)>>)
    /\ Goto(p, "enqueue_add_to_flight",
            Logged(p, Call("write", {coord_marshall_int(local[p].coord)},
                           {Len(msgs) + 1}, 1, 1)))
    /\ UNCHANGED <<index, local, held>>

\* enqueue: the sismember of `self._inflight(coord)` raises; it is called
\* only when seeding is off, and nothing in enqueue catches it.
enqueue_inflight_fails(p) ==
    /\ pc[p] = "enqueue_inflight"
    /\ ~is_seeding
    /\ Leave(p, <<>>, "TransportError", calls[p])
    /\ UNCHANGED <<index, msgs, held>>

\* Faulty variant: the key is marked although the push raised.
enqueue_write_fails_marks(p) ==
    /\ pc[p] = "enqueue_write"
    /\ LET k == coord_marshall_int(local[p].coord)
       IN  /\ index' = sadd({k})
           /\ Leave(p, <<>>, "TransportError",
                    calls[p] \o << Call("write", {k}, {}, 1, 0),
                                   Call("sadd", {k}, {}, 1, Cardinality({k} \ index)) >>)
    /\ UNCHANGED <<msgs, held>>

\* enqueue: `self.sqs_queue.write(message)` raises, no message is queued;
\* nothing in enqueue catches it, so `_add_to_flight` is not reached.
enqueue_write_fails(p) ==
    /\ pc[p] = "enqueue_write"
    /\ Leave(p, <<>>, "TransportError",
             Logged(p, Call("write", {coord_marshall_int(local[p].coord)}, {}, 1, 0)))
    /\ UNCHANGED <<index, msgs, held>>

\* enqueue: `self._add_to_flight(coord)`.
enqueue_add_to_flight(p) ==
    /\ pc[p] = "enqueue_add_to_flight"
    /\ LET k == coord_marshall_int(local[p].coord)
       IN  /\ index' = sadd({k})
           /\ Leave(p, <<>>, "",
                    Logged(p, Call("sadd", {k}, {}, 1, Cardinality({k} \ index))))
    /\ UNCHANGED <<msgs, held>>

Keys(cs) == { coord_marshall_int(cs[i]) : i \in 1 .. Len(cs) }

\* enqueue_batch(coords), called.
enqueue_batch(p, cs) ==
    Enter(p, "enqueue_batch", cs, <<>>, 0, [NoLocal EXCEPT !.coords = cs],
          "enqueue_batch_loop")

\* enqueue_batch: one turn of `for coord in coords`, or the end of the loop
\* and `if buffer`.
enqueue_batch_loop(p) ==
    /\ pc[p] = "enqueue_batch_loop"
    /\ LET l == local[p]
       IN  IF l.pos <= Len(l.coords)
           THEN LET c == l.coords[l.pos]
                IN  IF _inflight(c)
                    THEN /\ local' = [local EXCEPT ![p].n_in_flight = @ + 1,
                                                   ![p].pos = @ + 1]
                         /\ Goto(p, "enqueue_batch_loop", calls[p])
                    ELSE /\ local' = [local EXCEPT ![p].n_queued = @ + 1,
                                                   ![p].buffer = Append(@, c),
                                                   ![p].pos = @ + 1]
                         /\ IF Len(l.buffer) + 1 = BatchCap
                            THEN Goto(p, "_write_batch", calls[p])
                            ELSE Goto(p, "enqueue_batch_loop", calls[p])
           ELSE IF l.buffer # <<>>
                THEN /\ local' = [local EXCEPT ![p].final = TRUE]
                     /\ Goto(p, "_write_batch", calls[p])
                ELSE Leave(p, <<l.n_queued, l.n_in_flight>>, "", calls[p])
    /\ UNCHANGED <<index, msgs, held>>

\* Faulty variant: the keys are marked in-flight before anything is pushed.
_write_batch_marks_first(p) ==
    /\ pc[p] = "_write_batch"
    /\ index' = sadd(Keys(local[p].buffer))
    /\ Goto(p, "_write_batch_sadd",
            Logged(p, Call("sadd", Keys(local[p].buffer), {}, Len(local[p].buffer),
                           Cardinality(Keys(local[p].buffer) \ index))))
    /\ UNCHANGED <<msgs, local, held>>

\* _write_batch: the assertion, the loop that serializes, and
\* `self.sqs_queue.write_batch(msg_tuples)`.
_write_batch(p) ==
    /\ pc[p] = "_write_batch"
    /\ LET b == local[p].buffer
       IN  IF Len(b) <= BatchCap
           THEN /\ msgs' = write([i \in 1 .. Len(b) |-> serialize_coord(b[i])])
                /\ Goto(p, "_write_batch_sadd",
                        Logged(p, Call("write_batch", Keys(b),
                                       (Len(msgs) + 1) .. (Len(msgs) + Len(b)),
                                       Len(b), Len(b))))
                /\ UNCHANGED local
           ELSE /\ Leave(p, <<>>, "AssertionError", calls[p])
                /\ UNCHANGED msgs
    /\ UNCHANGED <<index, held>>

\* _write_batch: `self.sqs_queue.write_batch(msg_tuples)` raises; nothing in
\* enqueue_batch catches it.
_write_batch_fails(p) ==
    /\ pc[p] = "_write_batch"
    /\ Leave(p, <<>>, "TransportError", calls[p])
    /\ UNCHANGED <<index, msgs, held>>

\* _write_batch: `self.redis_client.sadd(...)` raises; nothing catches it.
_write_batch_sadd_fails(p) ==
    /\ pc[p] = "_write_batch_sadd"
    /\ Leave(p, <<>>, "TransportError", calls[p])
    /\ UNCHANGED <<index, msgs, held>>

\* Faulty variant: the keys are marked once, after the last chunk is sent.
_write_batch_sadd_deferred(p) ==
    /\ pc[p] = "_write_batch_sadd"
    /\ LET l == local[p]
           ks == UNION { calls[p][i].ks : i \in 1 .. Len(calls[p]) }
       IN  IF l.final
           THEN /\ index' = sadd(ks)
                /\ Leave(p, <<l.n_queued, l.n_in_flight>>, "",
                         Logged(p, Call("sadd", ks, {}, Cardinality(ks),
                                        Cardinality(ks \ index))))
           ELSE /\ index' = index
                /\ local' = [local EXCEPT ![p].buffer = <<>>]
                /\ Goto(p, "enqueue_batch_loop", calls[p])
    /\ UNCHANGED <<msgs, held>>

\* Faulty variant: `del buffer[:]` is missing after a chunk is flushed.
_write_batch_sadd_keeps_buffer(p) ==
    /\ pc[p] = "_write_batch_sadd"
    /\ LET l == local[p]
           cl == Logged(p, Call("sadd", Keys(l.buffer), {}, Len(l.buffer),
                                Cardinality(Keys(l.buffer) \ index)))
       IN  /\ index' = sadd(Keys(l.buffer))
           /\ IF l.final
              THEN Leave(p, <<l.n_queued, l.n_in_flight>>, "", cl)
              ELSE Goto(p, "enqueue_batch_loop", cl) /\ UNCHANGED local
    /\ UNCHANGED <<msgs, held>>

\* Faulty variant: the chunk is pushed but its keys are not marked in-flight.
_write_batch_sadd_unmarked(p) ==
    /\ pc[p] = "_write_batch_sadd"
    /\ LET l == local[p]
       IN  IF l.final
           THEN Leave(p, <<l.n_queued, l.n_in_flight>>, "", calls[p])
           ELSE /\ local' = [local EXCEPT ![p].buffer = <<>>]
                /\ Goto(p, "enqueue_batch_loop", calls[p])
    /\ UNCHANGED <<index, msgs, held>>

\* _write_batch: `self.redis_client.sadd(self.inflight_key, *values)`, and
\* back in enqueue_batch `del buffer[:]` or `return n_queued, n_in_flight`.
_write_batch_sadd(p) ==
    /\ pc[p] = "_write_batch_sadd"
    /\ LET l == local[p]
           cl == Logged(p, Call("sadd", Keys(l.buffer), {}, Len(l.buffer),
                                Cardinality(Keys(l.buffer) \ index)))
       IN  /\ index' = sadd(Keys(l.buffer))
           /\ IF l.final
              THEN Leave(p, <<l.n_queued, l.n_in_flight>>, "", cl)
              ELSE /\ local' = [local EXCEPT ![p].buffer = <<>>]
                   /\ Goto(p, "enqueue_batch_loop", cl)
    /\ UNCHANGED <<msgs, held>>

\* read(max_to_read), called.
read(p, n) ==
    Enter(p, "read", <<>>, <<>>, n, [NoLocal EXCEPT !.max_to_read = n], "read_get_messages")

\* Faulty variant: `if coord is None: continue` is missing.
CoordMessages_unchecked(got) ==
    [i \in 1 .. Len(got) |-> <<deserialize_coord(msgs[got[i]].body), got[i]>>]

\* The messages of a read whose body is a coordinate, as (coord, message).
CoordMessages(got) ==
    LET ok == { i \in 1 .. Len(got) : deserialize_coord(msgs[got[i]].body) # None }
        at == SetToSeq(ok)
    IN  [i \in 1 .. Len(at) |-> <<deserialize_coord(msgs[got[at[i]]].body), got[at[i]]>>]

\* The record of a get_messages call: the messages received, in order.
Received(got) ==
    [c |-> "get_messages", ks |-> {}, hs |-> Range(got), n |-> Len(got), ch |-> Len(got),
     seq |-> got]

\* Faulty variant: read takes a delivered job off the in-flight index.
read_get_messages_unmarks(p) ==
    /\ pc[p] = "read_get_messages"
    /\ \E got \in { <<>> } \cup { Receive(local[p].max_to_read, s) : s \in Visible } :
          /\ (got = <<>>) => (Visible = {})
          /\ msgs' = hide(Range(got))
          /\ index' = srem({ coord_marshall_int(CoordMessages(got)[i][1]) :
                                i \in 1 .. Len(CoordMessages(got)) })
          /\ held' = [held EXCEPT ![p] = @ \cup { CoordMessages(got)[i][2] :
                                                   i \in 1 .. Len(CoordMessages(got)) }]
          /\ Leave(p, CoordMessages(got), "", Logged(p, Received(got)))

\* Faulty variant: the received messages are not hidden from later receives.
read_get_messages_peeks(p) ==
    /\ pc[p] = "read_get_messages"
    /\ \E got \in { <<>> } \cup { Receive(local[p].max_to_read, s) : s \in Visible } :
          /\ (got = <<>>) => (Visible = {})
          /\ held' = [held EXCEPT ![p] = @ \cup { CoordMessages(got)[i][2] :
                                                   i \in 1 .. Len(CoordMessages(got)) }]
          /\ Leave(p, CoordMessages(got), "", Logged(p, Received(got)))
    /\ UNCHANGED <<index, msgs>>

\* read: `self.sqs_queue.get_messages(...)` and the loop that decodes.
read_get_messages(p) ==
    /\ pc[p] = "read_get_messages"
    /\ \E got \in { <<>> } \cup { Receive(local[p].max_to_read, s) : s \in Visible } :
          /\ (got = <<>>) => (Visible = {})
          /\ msgs' = hide(Range(got))
          /\ held' = [held EXCEPT ![p] = @ \cup { CoordMessages(got)[i][2] :
                                                   i \in 1 .. Len(CoordMessages(got)) }]
          /\ Leave(p, CoordMessages(got), "", Logged(p, Received(got)))
    /\ UNCHANGED index

KeyOf(h) == coord_marshall_int(deserialize_coord(msgs[h].body))

\* job_done(message), called with a message read() returned.
job_done(p, h) ==
    /\ h \in held[p]
    /\ Enter(p, "job_done", <<>>, <<h>>, 0, [NoLocal EXCEPT !.messages = <<h>>],
             "job_done_srem")

\* Faulty variant: the message is deleted before the key is removed.
job_done_srem_after_delete(p) ==
    /\ pc[p] = "job_done_srem"
    /\ LET h == local[p].messages[1]
       IN  /\ msgs' = delete({h})
           /\ index' = srem({KeyOf(h)})
           /\ Leave(p, <<>>, "",
                    calls[p] \o
                      << Call("delete_message", {}, {h}, 1, Cardinality({h} \cap Live)),
                         Call("srem", {KeyOf(h)}, {}, 1,
                              Cardinality({KeyOf(h)} \cap index)) >>)
    /\ UNCHANGED held

\* Faulty variant: the key is left in the index.
job_done_srem_forgotten(p) ==
    /\ pc[p] = "job_done_srem"
    /\ Goto(p, "job_done_delete", calls[p])
    /\ UNCHANGED <<index, msgs, local, held>>

\* Faulty variant: an srem that removes nothing is taken for an error.
job_done_srem_strict(p) ==
    /\ pc[p] = "job_done_srem"
    /\ LET k == KeyOf(local[p].messages[1])
       IN  IF k \in index
           THEN /\ index' = srem({k})
                /\ Goto(p, "job_done_delete", Logged(p, Call("srem", {k}, {}, 1, 1)))
                /\ UNCHANGED local
           ELSE /\ index' = index
                /\ Leave(p, <<>>, "KeyError", Logged(p, Call("srem", {k}, {}, 1, 0)))
    /\ UNCHANGED <<msgs, held>>

\* job_done: `self.redis_client.srem(self.inflight_key, coord_int)`.
job_done_srem(p) ==
    /\ pc[p] = "job_done_srem"
    /\ LET k == KeyOf(local[p].messages[1])
       IN  /\ index' = srem({k})
           /\ Goto(p, "job_done_delete",
                   Logged(p, Call("srem", {k}, {}, 1, Cardinality({k} \cap index))))
    /\ UNCHANGED <<msgs, local, held>>

\* job_done: `self.redis_client.srem(...)` raises, the index is as it was;
\* nothing in job_done catches it, so `delete_message` is not reached.
job_done_srem_fails(p) ==
    /\ pc[p] = "job_done_srem"
    /\ Leave(p, <<>>, "TransportError",
             Logged(p, Call("srem", {KeyOf(local[p].messages[1])}, {}, 1, 0)))
    /\ UNCHANGED <<index, msgs, held>>

\* job_done: `self.sqs_queue.delete_message(message)`.
job_done_delete(p) ==
    /\ pc[p] = "job_done_delete"
    /\ LET h == local[p].messages[1]
       IN  /\ msgs' = delete({h})
           /\ Leave(p, <<>>, "",
                    Logged(p, Call("delete_message", {}, {h}, 1,
                                   Cardinality({h} \cap Live))))
    /\ UNCHANGED <<index, held>>

\* jobs_done(messages), called with messages read() returned.
jobs_done(p, hs) ==
    /\ Range(hs) \subseteq held[p]
    /\ Enter(p, "jobs_done", <<>>, hs, 0, [NoLocal EXCEPT !.messages = hs],
             "jobs_done_srem")

\* jobs_done: the loop that decodes, and
\* `self.redis_client.srem(self.inflight_key, *coord_ints)`.
jobs_done_srem(p) ==
    /\ pc[p] = "jobs_done_srem"
    /\ LET ks == { KeyOf(h) : h \in Range(local[p].messages) }
       IN  /\ index' = srem(ks)
           /\ Goto(p, "jobs_done_delete",
                   Logged(p, Call("srem", ks, {}, Len(local[p].messages),
                                  Cardinality(ks \cap index))))
    /\ UNCHANGED <<msgs, local, held>>

\* jobs_done: `self.redis_client.srem(...)` raises, the index is as it was;
\* nothing in jobs_done catches it, so `delete_message_batch` is not reached.
jobs_done_srem_fails(p) ==
    /\ pc[p] = "jobs_done_srem"
    /\ Leave(p, <<>>, "TransportError",
             Logged(p, Call("srem", { KeyOf(h) : h \in Range(local[p].messages) }, {},
                            Len(local[p].messages), 0)))
    /\ UNCHANGED <<index, msgs, held>>

\* jobs_done: `self.sqs_queue.delete_message_batch(messages)`.  SQS refuses
\* a batch of more than BatchCap entries, deleting nothing.
jobs_done_delete(p) ==
    /\ pc[p] = "jobs_done_delete"
    /\ LET hs == local[p].messages
       IN  IF Len(hs) <= BatchCap
           THEN /\ msgs' = delete(Range(hs))
                /\ Leave(p, <<>>, "",
                         Logged(p, Call("delete_message_batch", {}, Range(hs), Len(hs),
                                        Cardinality(Range(hs) \cap Live))))
           ELSE /\ msgs' = msgs
                /\ Leave(p, <<>>, "SQSError",
                         Logged(p, Call("delete_message_batch", {}, Range(hs), Len(hs), 0)))
    /\ UNCHANGED <<index, held>>

\* clear(), called.  The record of the call keeps the messages that are
\* visible at the call.
clear(p) ==
    Enter(p, "clear", <<>>, SetToSeq(Visible), Cardinality(Visible), NoLocal, "clear_delete")

\* clear: `self.redis_client.delete(self.inflight_key)` and `n = 0`.
clear_delete(p) ==
    /\ pc[p] = "clear_delete"
    /\ index' = {}
    /\ Goto(p, "clear_get_messages",
            Logged(p, Call("delete", index, {}, Cardinality(index), Cardinality(index))))
    /\ UNCHANGED <<msgs, local, held>>

\* Faulty variant: clear stops after its first batch.
clear_get_messages_once(p) ==
    /\ pc[p] = "clear_get_messages"
    /\ \E got \in { <<>> } \cup { Receive(BatchCap, s) : s \in Visible } :
          /\ (got = <<>>) => (Visible = {})
          /\ msgs' = hide(Range(got))
          /\ IF got = <<>> \/ local[p].n > 0
             THEN Leave(p, <<local[p].n>>, "", Logged(p, Received(got)))
             ELSE /\ local' = [local EXCEPT ![p].messages = got]
                  /\ Goto(p, "clear_delete_message_batch", Logged(p, Received(got)))
    /\ UNCHANGED <<index, held>>

\* clear: `msgs = self.sqs_queue.get_messages(10)` and `if not msgs: break`,
\* then `return n`.
clear_get_messages(p) ==
    /\ pc[p] = "clear_get_messages"
    /\ \E got \in { <<>> } \cup { Receive(BatchCap, s) : s \in Visible } :
          /\ (got = <<>>) => (Visible = {})
          /\ msgs' = hide(Range(got))
          /\ IF got = <<>>
             THEN Leave(p, <<local[p].n>>, "", Logged(p, Received(got)))
             ELSE /\ local' = [local EXCEPT ![p].messages = got]
                  /\ Goto(p, "clear_delete_message_batch", Logged(p, Received(got)))
    /\ UNCHANGED <<index, held>>

\* clear: `self.sqs_queue.delete_message_batch(msgs)` and `n += len(msgs)`.
clear_delete_message_batch(p) ==
    /\ pc[p] = "clear_delete_message_batch"
    /\ LET hs == local[p].messages
       IN  /\ msgs' = delete(Range(hs))
           /\ local' = [local EXCEPT ![p].n = @ + Len(hs), ![p].messages = <<>>]
           /\ Goto(p, "clear_get_messages",
                   Logged(p, Call("delete_message_batch", {}, Range(hs), Len(hs),
                                  Cardinality(Range(hs) \cap Live))))
    /\ UNCHANGED <<index, held>>

\* SQS: the visibility timeout of a received message runs out.
visibility_timeout(h) ==
    /\ h \in Handles
    /\ msgs[h].st = "hidden"
    /\ msgs' = [msgs EXCEPT ![h].st = "visible"]
    /\ UNCHANGED <<is_seeding, index, pc, local, ret, exc, held, calls, cur, prev, history>>

\* SQS: a client that is not an SqsQueue sends a body to the queue.
foreign_write(body) ==
    /\ msgs' = write(<<body>>)
    /\ UNCHANGED <<is_seeding, index, pc, local, ret, exc, held, calls, cur, prev, history>>

\* Process p dies inside a method; its replacement starts with nothing.
crash(p) ==
    /\ pc[p] # "idle"
    /\ pc' = [pc EXCEPT ![p] = "idle"]
    /\ local' = [local EXCEPT ![p] = NoLocal]
    /\ exc' = [exc EXCEPT ![p] = "crashed"]
    /\ held' = [held EXCEPT ![p] = {}]
    /\ UNCHANGED <<is_seeding, index, msgs, ret, calls, cur, prev, history>>

-----------------------------------------------------------------------------
(* Specifications.                                                          *)

Coords == { CoordAt(i) : i \in 1 .. NumCoords }

RECURSIVE SeqsUpTo(_, _)
\* The sequences over S of length at most n.
SeqsUpTo(S, n) ==
    IF n = 0 THEN { <<>> }
    ELSE LET T == SeqsUpTo(S, n - 1)
         IN  T \cup { Append(t, x) : t \in { u \in T : Len(u) = n - 1 }, x \in S }

\* The nonempty lists of held messages, in ascending order.
HeldLists(p) == { SetToSeq(S) : S \in (SUBSET held[p]) \ { {} } }

\* The state after __init__, with empty collaborators.
InitWith(h) ==
    /\ is_seeding \in BOOLEAN
    /\ index = {}
    /\ msgs = <<>>
    /\ pc = [p \in Procs |-> "idle"]
    /\ local = [p \in Procs |-> NoLocal]
    /\ ret = [p \in Procs |-> <<>>]
    /\ exc = [p \in Procs |-> ""]
    /\ held = [p \in Procs |-> {}]
    /\ calls = [p \in Procs |-> <<>>]
    /\ cur = [p \in Procs |-> NoCall]
    /\ prev = [p \in Procs |-> Summary(NoCall, "", 0)]
    /\ history = h

Init == InitWith(FALSE)

InitSeq == InitWith(TRUE)

\* The steps of enqueue and enqueue_batch.
ProducerStep(p) ==
    \/ enqueue_inflight(p)
    \/ enqueue_write(p)
    \/ enqueue_add_to_flight(p)
    \/ enqueue_batch_loop(p)
    \/ _write_batch(p)
    \/ _write_batch_sadd(p)

\* The steps of read, job_done and jobs_done.
ConsumerStep(p) ==
    \/ read_get_messages(p)
    \/ job_done_srem(p)
    \/ job_done_delete(p)
    \/ jobs_done_srem(p)
    \/ jobs_done_delete(p)

\* The methods a producer p may call, with small inputs.
Produce(p) ==
    \/ \E c \in Coords : Len(msgs) < MaxMsgs /\ enqueue(p, c)
    \/ \E cs \in SeqsUpTo(Coords, MaxList) :
          Len(msgs) + Len(cs) <= MaxMsgs /\ enqueue_batch(p, cs)

\* The methods a consumer p may call.
Consume(p) ==
    \/ \E n \in 1 .. MaxRead : read(p, n)
    \/ \E h \in held[p] : job_done(p, h)
    \/ \E hs \in HeldLists(p) : jobs_done(p, hs)

Producers == { p \in Procs : p % 2 = 1 }
Consumers == { p \in Procs : p % 2 = 0 }

\* Producers and consumers running concurrently, without crashes.
Next ==
    \/ \E p \in Producers : Produce(p)
    \/ \E p \in Consumers : Consume(p)
    \/ \E p \in Producers : ProducerStep(p)
    \/ \E p \in Consumers : ConsumerStep(p)
    \/ \E h \in Handles : visibility_timeout(h)

Spec == Init /\ [][Next]_vars

\* One caller at a time, which may crash inside a method.
NextSeq ==
    \/ Produce(1) \/ Consume(1) \/ ProducerStep(1) \/ ConsumerStep(1) \/ crash(1)
    \/ \E h \in Handles : visibility_timeout(h)

SpecSeq == InitSeq /\ [][NextSeq]_vars

\* A producer issuing long batches: the lists of distinct coordinates, the
\* lists that repeat one coordinate, and the short lists.
Distinct(n) == [i \in 1 .. n |-> CoordAt(i)]

Repeat(c, n) == [i \in 1 .. n |-> c]

BatchLists ==
    { Distinct(n) : n \in 0 .. NumBatchCoords }
        \cup { Repeat(c, n) : c \in Coords, n \in 0 .. MaxBatchList }
        \cup SeqsUpTo(Coords, MaxList)

\* The producer makes two calls.
ProduceBatch(p) ==
    \/ \E c \in Coords :
          prev[p].op = "none" /\ Len(msgs) < MaxBatchMsgs /\ enqueue(p, c)
    \/ \E cs \in BatchLists :
          /\ prev[p].op = "none"
          /\ Len(msgs) + Len(cs) <= MaxBatchMsgs
          /\ enqueue_batch(p, cs)

NextBatch == ProduceBatch(1) \/ ProducerStep(1) \/ crash(1)

SpecBatch == InitSeq /\ [][NextBatch]_vars

\* One batch of distinct coordinates is enqueued; a consumer then reads and
\* acknowledges everything it has read in one jobs_done.
ConsumeAll(p) ==
    \/ read(p, BatchCap)
    \/ held[p] # {} /\ jobs_done(p, SetToSeq(held[p]))

NextAck ==
    \/ \E n \in 0 .. NumBatchCoords : cur[1].op = "none" /\ enqueue_batch(1, Distinct(n))
    \/ ConsumeAll(1)
    \/ enqueue_batch_loop(1) \/ _write_batch(1) \/ _write_batch_sadd(1)
    \/ read_get_messages(1) \/ jobs_done_srem(1) \/ jobs_done_delete(1)

SpecAck == InitSeq /\ [][NextAck]_vars

\* Bodies that are not "<zoom>/<column>/<row>": two fields, an empty field,
\* no text at all.
Corrupted == { <<0, Slash, 0>>, <<1, Slash, Slash, 1>>, <<>> }

\* One caller that enqueues and reads, on a queue other clients write to.
NextRead ==
    \/ \E c \in Coords : Len(msgs) < MaxMsgs /\ enqueue(1, c)
    \/ enqueue_inflight(1) \/ enqueue_write(1) \/ enqueue_add_to_flight(1)
    \/ \E b \in Corrupted : Len(msgs) < MaxMsgs /\ foreign_write(b)
    \/ \E n \in 1 .. MaxRead : read(1, n)
    \/ read_get_messages(1)
    \/ \E h \in Handles : visibility_timeout(h)

SpecRead == InitSeq /\ [][NextRead]_vars

\* Every process is a producer calling enqueue, concurrently with the others.
NextRace ==
    \E p \in Procs :
        \/ \E c \in Coords : Len(msgs) < MaxMsgs /\ enqueue(p, c)
        \/ enqueue_inflight(p)
        \/ enqueue_write(p)
        \/ enqueue_add_to_flight(p)

SpecRace == InitSeq /\ [][NextRace]_vars

\* A producer calling enqueue and a consumer calling read and job_done.
NextFair ==
    \/ \E c \in Coords : Len(msgs) < MaxMsgs /\ enqueue(1, c)
    \/ enqueue_inflight(1) \/ enqueue_write(1) \/ enqueue_add_to_flight(1)
    \/ \E n \in 1 .. MaxRead : read(2, n)
    \/ read_get_messages(2)
    \/ \E h \in held[2] : job_done(2, h)
    \/ job_done_srem(2) \/ job_done_delete(2)
    \/ \E h \in Handles : visibility_timeout(h)

\* The places inside the methods.
Labels ==
    {"enqueue_inflight", "enqueue_write", "enqueue_add_to_flight", "enqueue_batch_loop",
     "_write_batch", "_write_batch_sadd", "read_get_messages", "job_done_srem",
     "job_done_delete", "jobs_done_srem", "jobs_done_delete", "clear_delete",
     "clear_get_messages", "clear_delete_message_batch"}

\* Process p, inside a method, makes its next call.
Runs(p) ==
    /\ pc[p] \in Labels
    /\ \E l \in (Labels \cup {"idle"}) \ {pc[p]} : pc' = [pc EXCEPT ![p] = l]

\* The get_messages of consumer p hands out message h.
Receives(p, h) ==
    /\ pc[p] = "read_get_messages"
    /\ h \in Visible
    /\ \E s \in Visible :
          /\ h \in Range(Receive(local[p].max_to_read, s))
          /\ msgs' = hide(Range(Receive(local[p].max_to_read, s)))
    /\ pc' = [pc EXCEPT ![p] = "idle"]

\* The scheduling: a visibility timeout that has started runs out, a method
\* that was called runs to its end, the consumer keeps calling read, and SQS
\* does not withhold a visible message from it for ever.
Fairness ==
    /\ \A h \in 1 .. MaxMsgs : WF_vars(visibility_timeout(h))
    /\ WF_pc(Runs(2))
    /\ SF_vars(\E n \in 1 .. MaxRead : read(2, n))
    /\ \A h \in 1 .. MaxMsgs : SF_<<pc, msgs>>(Receives(2, h))

SpecFair == Init /\ [][NextFair]_vars /\ Fairness

\* Process p has made fewer than two calls.
FewCalls(p) == prev[p].op = "none"

\* Two consumers of a queue that other clients write to, each making two
\* calls: one reads and clears, the other reads and acknowledges.
NextVis ==
    \/ \E b \in { serialize_coord(CoordAt(1)), <<>> } :
          Len(msgs) < MaxMsgs /\ foreign_write(b)
    \/ \E n \in 1 .. MaxRead : FewCalls(1) /\ read(1, n)
    \/ FewCalls(1) /\ clear(1)
    \/ clear_delete(1)
    \/ clear_get_messages(1)
    \/ clear_delete_message_batch(1)
    \/ \E n \in 1 .. MaxRead : FewCalls(2) /\ read(2, n)
    \/ \E h \in held[2] : FewCalls(2) /\ job_done(2, h)
    \/ job_done_srem(2)
    \/ job_done_delete(2)
    \/ \E p \in Procs : read_get_messages(p)
    \/ \E h \in Handles : visibility_timeout(h)

SpecVis == InitSeq /\ [][NextVis]_vars

\* One caller and nobody else: a batch of distinct coordinates is enqueued,
\* some messages may be read, and the queue is cleared, while the timeouts
\* of the messages that were read run out.  A method that was called runs to
\* its end.
NextClear ==
    \/ \E n \in 0 .. NumBatchCoords : cur[1].op = "none" /\ enqueue_batch(1, Distinct(n))
    \/ enqueue_batch_loop(1) \/ _write_batch(1) \/ _write_batch_sadd(1)
    \/ cur[1].op = "enqueue_batch" /\ read(1, MaxRead)
    \/ read_get_messages(1)
    \/ cur[1].op \in {"enqueue_batch", "read"} /\ clear(1)
    \/ clear_delete(1)
    \/ clear_get_messages(1)
    \/ clear_delete_message_batch(1)
    \/ \E h \in held[1] : visibility_timeout(h)

SpecClear == InitSeq /\ [][NextClear]_vars /\ WF_pc(Runs(1))

\* A producer whose enqueue_batch may fail at a write_batch or at an sadd,
\* and who then runs the same call again.
NextFail ==
    \/ \E cs \in { Distinct(n) : n \in 0 .. NumBatchCoords } \cup SeqsUpTo(Coords, MaxList) :
          /\ FewCalls(1)
          /\ cur[1].op = "none" \/ cs = cur[1].coords
          /\ Len(msgs) + Len(cs) <= MaxBatchMsgs
          /\ enqueue_batch(1, cs)
    \/ enqueue_batch_loop(1)
    \/ _write_batch(1)
    \/ _write_batch_sadd(1)
    \/ _write_batch_fails(1)
    \/ _write_batch_sadd_fails(1)

SpecFail == InitSeq /\ [][NextFail]_vars

\* The columns and rows tried at zoom z: the ends of the range and the values
\* next to the places where a key is cut into bytes and words.
Edges(z) == { v \in {0, 255, 256, 65535, 65536, (2 ^ z) - 1} : v < 2 ^ z }

\* Valid coordinates of the lowest zooms and of the highest.
KeyCoords ==
    UNION { { Coord(z, x, y) : x \in Edges(z), y \in Edges(z) } : z \in {0, 1, MaxZoom} }

\* One caller that enqueues such coordinates, reads and acknowledges.
NextKey ==
    \/ \E c \in KeyCoords : Len(msgs) < MaxMsgs /\ enqueue(1, c)
    \/ enqueue_inflight(1) \/ enqueue_write(1) \/ enqueue_add_to_flight(1)
    \/ \E c \in KeyCoords : Len(msgs) < MaxMsgs /\ enqueue_batch(1, <<c>>)
    \/ enqueue_batch_loop(1) \/ _write_batch(1) \/ _write_batch_sadd(1)
    \/ read(1, MaxRead)
    \/ read_get_messages(1)
    \/ \E h \in held[1] : job_done(1, h)
    \/ job_done_srem(1) \/ job_done_delete(1)
    \/ held[1] # {} /\ jobs_done(1, SetToSeq(held[1]))
    \/ jobs_done_srem(1) \/ jobs_done_delete(1)

SpecKey == Init /\ [][NextKey]_vars

\* A worker that enqueues, reads and acknowledges what it holds, and a second
\* consumer that reads once and acknowledges later.  There are no crashes.
NextStale ==
    \/ \E c \in Coords : Len(msgs) < MaxMsgs /\ enqueue(1, c)
    \/ enqueue_inflight(1) \/ enqueue_write(1) \/ enqueue_add_to_flight(1)
    \/ \E n \in 1 .. MaxRead : read(1, n)
    \/ \E h \in held[1] : h \in Live /\ job_done(1, h)
    \/ \E n \in 1 .. MaxRead : FewCalls(2) /\ read(2, n)
    \/ \E h \in held[2] : FewCalls(2) /\ job_done(2, h)
    \/ \E p \in Procs : read_get_messages(p) \/ job_done_srem(p) \/ job_done_delete(p)
    \/ \E h \in Handles : visibility_timeout(h)

SpecStale == InitSeq /\ [][NextStale]_vars

\* One caller at a time whose Redis and SQS calls in enqueue, job_done and
\* jobs_done may raise.
NextErr ==
    \/ \E c \in Coords : Len(msgs) < MaxMsgs /\ enqueue(1, c)
    \/ enqueue_inflight(1) \/ enqueue_write(1) \/ enqueue_add_to_flight(1)
    \/ enqueue_inflight_fails(1) \/ enqueue_write_fails(1)
    \/ Consume(1)
    \/ ConsumerStep(1)
    \/ job_done_srem_fails(1) \/ jobs_done_srem_fails(1)
    \/ \E h \in Handles : visibility_timeout(h)

SpecErr == InitSeq /\ [][NextErr]_vars

-----------------------------------------------------------------------------
(* Properties.                                                              *)

\* Process p has finished method op normally.
Finished(p, op) == pc[p] = "idle" /\ exc[p] = "" /\ cur[p].op = op

\* The method p finished before the current one was op, and ended normally.
Before(p, op) == prev[p].op = op /\ prev[p].exc = ""

\* The messages in the queue, pending or delivered, whose body is coordinate c.
MessagesOf(c) == { h \in Live : msgs[h].body = serialize_coord(c) }

\* p has finished enqueue(C) twice in a row.
EnqueuedTwice(p) ==
    /\ Finished(p, "enqueue")
    /\ Before(p, "enqueue")
    /\ prev[p].coords = cur[p].coords

(* C1: with seeding off and one sequential caller, the second of two       *)
(* enqueue(C) calls in a row (no acknowledge or clear between them) makes   *)
(* no call that changes the queue or the index, so that the two calls       *)
(* together push at most one message for C, and C stays marked in-flight.   *)
C1_DedupWhileInflight ==
    (~is_seeding) =>
        \A p \in Procs :
            EnqueuedTwice(p) =>
                /\ calls[p] = <<>>
                /\ prev[p].writes <= 1
                /\ coord_marshall_int(cur[p].coords[1]) \in index

\* The first enqueue(C) pushed a message, the second has returned.
C1_Witness ==
    /\ ~is_seeding
    /\ EnqueuedTwice(1)
    /\ prev[1].writes = 1
    /\ Cardinality(MessagesOf(cur[1].coords[1])) = 1

(* C2: in crash-free runs of concurrent producers and consumers, every key  *)
(* in the in-flight index has a message for its coordinate in the queue,    *)
(* pending or delivered.  Stated for the default, seeding off.              *)
C2_InflightHasMessage ==
    (~is_seeding) => \A k \in index : \E h \in Live : KeyOf(h) = k

\* No method of p has crashed.
NeverCrashed(p) == exc[p] # "crashed" /\ prev[p].exc # "crashed"

(* C3: with seeding off, one producer and no acknowledge or clear, the      *)
(* queue holds at most one message per coordinate after any sequence of     *)
(* enqueue and enqueue_batch calls, whatever the input lists repeat.        *)
C3_OneMessagePerCoord ==
    (~is_seeding /\ \A p \in Procs : NeverCrashed(p)) =>
        \A h1 \in Live : \A h2 \in Live : msgs[h1].body = msgs[h2].body => h1 = h2

\* The calls of p named in names, as positions of calls[p].
CallsOf(p, names) == { i \in 1 .. Len(calls[p]) : calls[p][i].c \in names }

(* C4: enqueue_batch(coords) returns (queued, already_inflight) whose sum   *)
(* is len(coords); every write_batch it sends carries 1 to 10 entries, and  *)
(* the assertion of _write_batch never fails.                               *)
C4_BatchAccounting ==
    \A p \in Procs :
        /\ Finished(p, "enqueue_batch") =>
              /\ Len(ret[p]) = 2
              /\ ret[p][1] + ret[p][2] = Len(cur[p].coords)
        /\ \A i \in CallsOf(p, {"write_batch"}) : calls[p][i].n \in 1 .. BatchCap
        /\ exc[p] # "AssertionError"

\* A list of 11 was sent as a batch of 10 and a batch of 1.
C4_Witness ==
    /\ Finished(1, "enqueue_batch")
    /\ Len(cur[1].coords) = BatchCap + 1
    /\ ret[1] = <<BatchCap + 1, 0>>
    /\ Len(calls[1]) = 4
    /\ calls[1][1].n = BatchCap
    /\ calls[1][3].n = 1

Acks == {"job_done", "jobs_done"}

Deletes == {"delete_message", "delete_message_batch"}

(* C5: job_done and jobs_done remove the dedup keys from the index before   *)
(* they delete the messages: every delete follows the srem of the keys of   *)
(* its messages; a caller that crashes between the two leaves the keys out  *)
(* of the index and has deleted nothing; and once the delete is made the    *)
(* keys of the deleted messages are not in the index.                       *)
C5_RemoveBeforeDelete ==
    \A p \in Procs :
        /\ \A i \in CallsOf(p, Deletes) :
              /\ i > 1
              /\ calls[p][i - 1].c = "srem"
              /\ { KeyOf(h) : h \in calls[p][i].hs } \subseteq calls[p][i - 1].ks
              /\ \A h \in calls[p][i].hs : KeyOf(h) \notin index
        /\ (cur[p].op \in Acks /\ exc[p] = "crashed" /\ calls[p] # <<>>) =>
              /\ calls[p][1].c = "srem"
              /\ calls[p][1].ks \cap index = {}
              /\ CallsOf(p, Deletes) = {}

\* job_done crashed after its srem took the key out: the message is still there.
C5_Witness ==
    /\ cur[1].op = "job_done"
    /\ exc[1] = "crashed"
    /\ Len(calls[1]) = 1
    /\ calls[1][1].ch = 1
    /\ cur[1].messages[1] \in Live
    /\ KeyOf(cur[1].messages[1]) \notin index

(* C6: enqueue and every chunk of enqueue_batch push the messages before    *)
(* they mark the keys: every sadd follows at once the write of the same     *)
(* coordinates, so at any point of a call, a crash included, a key the call *)
(* has marked is the key of a message the call has pushed.                  *)
C6_PushBeforeMark ==
    \A p \in Procs :
        \A i \in CallsOf(p, {"sadd"}) :
            /\ i > 1
            /\ calls[p][i - 1].c \in {"write", "write_batch"}
            /\ calls[p][i].ks = calls[p][i - 1].ks
            /\ \A k \in calls[p][i].ks : \E h \in Written(calls[p]) : KeyOf(h) = k

\* enqueue_batch crashed after sending its second chunk, before marking it.
C6_Witness ==
    /\ cur[1].op = "enqueue_batch"
    /\ exc[1] = "crashed"
    /\ Len(calls[1]) = 3
    /\ calls[1][3].c = "write_batch"
    /\ ~(calls[1][3].ks \subseteq index)

\* p has finished enqueue(C) right after acknowledging a message of C.
EnqueuedAfterAck(p) ==
    /\ Finished(p, "enqueue")
    /\ prev[p].op \in Acks
    /\ prev[p].exc = ""
    /\ \E h \in Range(prev[p].messages) : KeyOf(h) = coord_marshall_int(cur[p].coords[1])

(* C7: an enqueue(C) that follows job_done(h), or a jobs_done containing h, *)
(* for a message h of C pushes a new message for C and marks C in-flight.   *)
C7_ReenqueueAfterAck ==
    \A p \in Procs :
        EnqueuedAfterAck(p) =>
            /\ Len(calls[p]) = 2
            /\ calls[p][1].c = "write"
            /\ calls[p][2].c = "sadd"
            /\ \A h \in calls[p][1].hs :
                  /\ h \in MessagesOf(cur[p].coords[1])
                  /\ h \notin Range(prev[p].messages)
            /\ coord_marshall_int(cur[p].coords[1]) \in index

\* With seeding off: enqueue, read, job_done, enqueue has pushed a second message.
C7_Witness ==
    /\ ~is_seeding
    /\ EnqueuedAfterAck(1)
    /\ prev[1].op = "job_done"
    /\ Len(msgs) = 2
    /\ msgs[1].st = "deleted"

IsDistinct(cs) == \A i \in 1 .. Len(cs) : \A j \in 1 .. Len(cs) : cs[i] = cs[j] => i = j

\* p has finished enqueue_batch on the same distinct coordinates twice in a
\* row, and the first call pushed them all.
BatchedTwice(p) ==
    /\ Finished(p, "enqueue_batch")
    /\ Before(p, "enqueue_batch")
    /\ prev[p].coords = cur[p].coords
    /\ IsDistinct(cur[p].coords)
    /\ prev[p].writes = Len(cur[p].coords)

(* C8: with seeding off and no concurrent activity, enqueue_batch on        *)
(* pairwise-distinct coordinates none of which is in-flight returns         *)
(* (len(coords), 0), pushes exactly one message per coordinate and marks    *)
(* them all; the same call made again at once returns (0, len(coords)) and  *)
(* makes no call that changes the queue or the index.                       *)
C8_BatchThenAgain ==
    (~is_seeding) =>
        \A p \in Procs :
            /\ ( /\ Finished(p, "enqueue_batch")
                 /\ IsDistinct(cur[p].coords)
                 /\ Keys(cur[p].coords) \cap cur[p].index0 = {} ) =>
                   /\ ret[p] = <<Len(cur[p].coords), 0>>
                   /\ Keys(cur[p].coords) \subseteq index
                   /\ Cardinality(Written(calls[p])) = Len(cur[p].coords)
                   /\ \A i \in 1 .. Len(cur[p].coords) :
                         \E h \in Written(calls[p]) :
                             msgs[h].body = serialize_coord(cur[p].coords[i])
            /\ BatchedTwice(p) =>
                   /\ ret[p] = <<0, Len(cur[p].coords)>>
                   /\ calls[p] = <<>>

\* Eleven distinct coordinates, batched twice.
C8_Witness ==
    /\ ~is_seeding
    /\ BatchedTwice(1)
    /\ Len(cur[1].coords) = BatchCap + 1
    /\ Len(msgs) = BatchCap + 1

\* p has made the same acknowledge twice in a row, to the end both times.
AckedTwice(p) ==
    /\ pc[p] = "idle"
    /\ cur[p].op \in Acks
    /\ prev[p].op = cur[p].op
    /\ prev[p].messages = cur[p].messages
    /\ exc[p] # "crashed"
    /\ prev[p].exc # "crashed"

(* C9: job_done never ends in an error, whatever is left of the marker and  *)
(* the message of its handle; when job_done or jobs_done returns, also when *)
(* it is run again after a call that failed part way, the keys of its       *)
(* handles are out of the index and their messages are deleted; and the     *)
(* same job_done or jobs_done made again at once ends as the first did and  *)
(* changes neither the index nor the queue.                                 *)
C9_AckIdempotent ==
    \A p \in Procs :
        /\ (pc[p] = "idle" /\ cur[p].op = "job_done" /\ exc[p] # "crashed") => exc[p] = ""
        /\ (pc[p] = "idle" /\ cur[p].op \in Acks /\ exc[p] = "") =>
              \A h \in Range(cur[p].messages) : KeyOf(h) \notin index /\ h \notin Live
        /\ AckedTwice(p) =>
              /\ exc[p] = prev[p].exc
              /\ \A i \in 1 .. Len(calls[p]) : calls[p][i].ch = 0

\* job_done(h) twice in a row: the second found the key and the message gone.
C9_Witness ==
    /\ AckedTwice(1)
    /\ cur[1].op = "job_done"
    /\ Len(calls[1]) = 2
    /\ exc[1] = ""

(* C10: no delete_message_batch call jobs_done makes carries more than 10   *)
(* handles, however many handles jobs_done is given.                        *)
C10_DeleteBatchCap ==
    \A p \in Procs :
        \A i \in CallsOf(p, {"delete_message_batch"}) : calls[p][i].n <= BatchCap

\* The messages of got whose body decodes to a coordinate, in the order of got.
Decodable(got) == SelectSeq(got, LAMBDA h : deserialize_coord(msgs[h].body) # None)

(* C11: read(max_n) returns, in receive order, one (coordinate, message)    *)
(* pair for each received message whose body decodes, at most max_n pairs;  *)
(* a received message whose body does not decode is left out without an     *)
(* error; read makes no call but get_messages, so it deletes nothing and    *)
(* leaves the index as it was, and every received message stays in the      *)
(* queue.                                                                   *)
C11_ReadSkipsUndecodable ==
    \A p \in Procs :
        (pc[p] = "idle" /\ cur[p].op = "read" /\ exc[p] # "crashed") =>
            /\ exc[p] = ""
            /\ Len(calls[p]) = 1
            /\ calls[p][1].c = "get_messages"
            /\ Len(ret[p]) <= cur[p].n
            /\ Len(ret[p]) = Len(Decodable(calls[p][1].seq))
            /\ \A i \in 1 .. Len(ret[p]) :
                  /\ ret[p][i][2] = Decodable(calls[p][1].seq)[i]
                  /\ serialize_coord(ret[p][i][1]) = msgs[ret[p][i][2]].body
            /\ calls[p][1].hs \subseteq Live
            /\ index = cur[p].index0

\* read(2) received a corrupted message, then a message of a coordinate.
C11_Witness ==
    /\ Finished(1, "read")
    /\ Len(calls[1][1].seq) = 2
    /\ Len(ret[1]) = 1
    /\ ret[1][1][2] = calls[1][1].seq[2]
    /\ index # {}
    /\ msgs[calls[1][1].seq[1]].st = "hidden"

\* p and q have both finished enqueue(c), and both have pushed.
BothPushed(p, q, c) ==
    /\ p # q
    /\ Finished(p, "enqueue") /\ cur[p].coords = <<c>> /\ calls[p] # <<>>
    /\ Finished(q, "enqueue") /\ cur[q].coords = <<c>> /\ calls[q] # <<>>

\* The membership test of enqueue changes nothing, and the producer that
\* found the key absent pushes one message whatever the index holds by then.
CheckThenPush ==
    \A p \in Procs :
        /\ (pc[p] = "enqueue_inflight" /\ pc'[p] # pc[p]) => (msgs' = msgs /\ index' = index)
        /\ (pc[p] = "enqueue_write" /\ pc'[p] # pc[p]) =>
              /\ Len(msgs') = Len(msgs) + 1
              /\ msgs'[Len(msgs')].body = serialize_coord(local[p].coord)

(* C12: with seeding off, two producers calling enqueue(C) concurrently for *)
(* a coordinate C that is not in-flight can both find the key absent and    *)
(* both push: the test and the push are separate steps with no second test  *)
(* between them, and when both have pushed there are two messages for C in  *)
(* the queue while the index holds the key of C, once.                      *)
C12_EnqueueRace ==
    /\ [][CheckThenPush]_vars
    /\ [](~is_seeding =>
            \A p \in Procs : \A q \in Procs : \A c \in Coords :
                BothPushed(p, q, c) =>
                    /\ Cardinality(MessagesOf(c)) >= 2
                    /\ Written(calls[p]) \cap Written(calls[q]) = {}
                    /\ coord_marshall_int(c) \in index
                    /\ coord_marshall_int(c) \notin cur[p].index0 \cup cur[q].index0)

\* Both producers have pushed a message for the first coordinate.
C12_Witness ==
    /\ ~is_seeding
    /\ BothPushed(1, 2, CoordAt(1))
    /\ Cardinality(MessagesOf(CoordAt(1))) = 2
    /\ index = { coord_marshall_int(CoordAt(1)) }

\* Message h has been returned by a read and is in the queue.
Delivered(h) == h \in Live /\ \E p \in Procs : h \in held[p]

\* Process p is inside job_done or jobs_done on the messages hs.
Acking(p) ==
    IF pc[p] \in {"job_done_srem", "job_done_delete", "jobs_done_srem", "jobs_done_delete"}
    THEN Range(local[p].messages)
    ELSE {}

\* A message leaves the queue only by the delete of an acknowledge of it.
DeletedByAckOnly ==
    \A h \in Handles :
        (h \in Live /\ msgs'[h].st = "deleted") =>
            \E p \in Procs : h \in Acking(p) /\ pc'[p] = "idle"

\* A key leaves the index only by the srem of an acknowledge of a message of
\* its coordinate.
UnmarkedByAckOnly ==
    \A k \in index :
        (k \notin index') =>
            \E p \in Procs : \E h \in Acking(p) : KeyOf(h) = k /\ pc'[p] # pc[p]

\* A message that is delivered and not visible becomes visible again, and a
\* visible message is received again, unless it is acknowledged.
Redelivery ==
    \A h \in 1 .. MaxMsgs :
        /\ (h \in Handles /\ msgs[h].st = "hidden")
              ~> (h \in Handles /\ msgs[h].st \in {"visible", "deleted"})
        /\ (h \in Handles /\ msgs[h].st = "visible")
              ~> (h \in Handles /\ msgs[h].st \in {"hidden", "deleted"})

Returned(r) == { r[i][2] : i \in 1 .. Len(r) }

\* What the get_messages step of a read of p hands out: only messages that
\* are visible; all of them, leaving none visible, when they all decode and
\* are no more than max_to_read; nothing when none is visible.
ReadTakesVisible(p) ==
    (pc[p] = "read_get_messages" /\ pc'[p] = "idle") =>
        /\ Returned(ret'[p]) \subseteq Visible
        /\ ( /\ Visible = Range(Decodable(SetToSeq(Visible)))
             /\ Cardinality(Visible) <= local[p].max_to_read ) =>
                 /\ Len(ret'[p]) = Cardinality(Visible)
                 /\ { h \in Handles : msgs'[h].st = "visible" } = {}
        /\ (Visible = {}) => (ret'[p] = <<>>)

\* A received message is visible again only when its timeout runs out, and a
\* deleted message stays deleted.
HiddenUntilTimeout ==
    \A h \in Handles :
        /\ (msgs[h].st = "hidden" /\ msgs'[h].st = "visible") => visibility_timeout(h)
        /\ (msgs[h].st = "deleted") => (msgs'[h].st = "deleted")

(* C14: a read(max_n) on a queue whose k visible messages all decode, with  *)
(* max_n >= k, returns k pairs and leaves no message visible, and a read    *)
(* that finds no message visible returns no pair, whichever consumer makes  *)
(* it; a read returns only visible messages, a received message is visible  *)
(* again only by its visibility timeout, and a message deleted by an        *)
(* acknowledge or by clear is never visible again.                          *)
C14_VisibilityAfterRead ==
    /\ [][\A p \in Procs : ReadTakesVisible(p)]_vars
    /\ [][HiddenUntilTimeout]_vars

\* read(2) of one consumer returned the two messages; the read(2) of the
\* other consumer that followed returned nothing.
C14_Witness ==
    /\ Finished(1, "read") /\ cur[1].n = 2 /\ Len(ret[1]) = 2
    /\ Finished(2, "read") /\ cur[2].n = 2 /\ ret[2] = <<>>
    /\ calls[2][1].n = 0
    /\ \A h \in Returned(ret[1]) : msgs[h].st = "hidden"

\* The messages that are deleted after the step.
DeletedNext == { h \in Handles : msgs'[h].st = "deleted" }

\* What holds when clear of p returns: the index is empty, no message is
\* visible, every message that was visible at the call is deleted, a message
\* that is left was and still is under a visibility timeout, and the result
\* counts the messages deleted: those visible at the call, and those whose
\* timeout ran out during the call.
ClearReturns(p) ==
    (pc[p] = "clear_get_messages" /\ pc'[p] = "idle") =>
        /\ index' = {}
        /\ Visible = {}
        /\ msgs' = msgs
        /\ Range(cur[p].messages) \subseteq DeletedNext
        /\ \A h \in Handles \ DeletedNext :
              msgs[h].st = "hidden" /\ h \notin Range(cur[p].messages)
        /\ ret'[p] = << Cardinality(DeletedNext) >>
        /\ ret'[p][1] = cur[p].n + Cardinality(DeletedNext \ Range(cur[p].messages))
        /\ exc'[p] = ""

BatchFailed(p) ==
    pc[p] = "idle" /\ cur[p].op = "enqueue_batch" /\ exc[p] = "TransportError"

\* The coordinates an enqueue_batch on distinct coordinates is to push: all
\* of them when seeding, else those not in-flight at the call.
ToPush(p) ==
    SelectSeq(cur[p].coords,
              LAMBDA c : is_seeding \/ coord_marshall_int(c) \notin cur[p].index0)

\* The keys the sadd calls of p's method were given.
Marked(p) == UNION { calls[p][i].ks : i \in CallsOf(p, {"sadd"}) }

\* p has run to its end the enqueue_batch that had failed before.
BatchRerun(p) ==
    /\ Finished(p, "enqueue_batch")
    /\ prev[p].op = "enqueue_batch"
    /\ prev[p].exc = "TransportError"
    /\ prev[p].coords = cur[p].coords

(* C16: when enqueue_batch fails at the write_batch or at the sadd of a     *)
(* chunk, the chunks before it are pushed and marked (whole chunks of 10),  *)
(* the failing chunk is pushed or not, and not marked, nothing of the later *)
(* chunks is pushed or marked, and nothing is undone: the messages are all  *)
(* in the queue and the index is what it was plus the marked chunks.  The   *)
(* same call run again to its end leaves every input coordinate with a      *)
(* message in the queue and its key in the index.                           *)
C16_PartialBatch ==
    \A p \in Procs :
        /\ (BatchFailed(p) /\ IsDistinct(cur[p].coords)) =>
              LET q == ToPush(p)
                  w == Cardinality(Written(calls[p]))
                  m == Cardinality(Marked(p))
              IN  /\ m % BatchCap = 0
                  /\ w \in {m, Min(m + BatchCap, Len(q))}
                  /\ { msgs[h].body : h \in Written(calls[p]) } =
                         { serialize_coord(q[i]) : i \in 1 .. w }
                  /\ Marked(p) = Keys(SubSeq(q, 1, m))
                  /\ index = cur[p].index0 \cup Marked(p)
                  /\ Handles = Live
        /\ BatchRerun(p) =>
              \A i \in 1 .. Len(cur[p].coords) :
                  /\ MessagesOf(cur[p].coords[i]) # {}
                  /\ coord_marshall_int(cur[p].coords[i]) \in index

\* With seeding off, the second chunk of eleven coordinates failed at its
\* sadd, and the call was run again: the eleventh has two messages.
C16_Witness ==
    /\ ~is_seeding
    /\ BatchRerun(1)
    /\ Len(cur[1].coords) = BatchCap + 1
    /\ prev[1].writes = BatchCap + 1
    /\ Len(msgs) = BatchCap + 2
    /\ ret[1] = <<1, BatchCap>>

\* The calls cl are pushes, each followed by the sadd of the keys it pushed.
PushesAndMarks(cl) ==
    /\ Len(cl) % 2 = 0
    /\ \A i \in 1 .. Len(cl) :
          IF i % 2 = 1
          THEN cl[i].c \in {"write", "write_batch"}
          ELSE cl[i].c = "sadd" /\ cl[i].ks = cl[i - 1].ks

(* C17: when the queue is constructed with is_seeding true, enqueue(C)      *)
(* pushes a message on every call, whatever the index holds, and            *)
(* enqueue_batch(coords) returns (len(coords), 0) and pushes a message per  *)
(* element; the keys are added to the index after each push.  When          *)
(* is_seeding is false the membership test decides: a coordinate whose key  *)
(* is in the index is not pushed, one whose key is not is pushed.           *)
C17_Seeding ==
    \A p \in Procs :
        /\ (is_seeding /\ Finished(p, "enqueue")) =>
              /\ Len(calls[p]) = 2
              /\ PushesAndMarks(calls[p])
              /\ Written(calls[p]) \subseteq MessagesOf(cur[p].coords[1])
              /\ coord_marshall_int(cur[p].coords[1]) \in index
        /\ (is_seeding /\ Finished(p, "enqueue_batch")) =>
              /\ ret[p] = <<Len(cur[p].coords), 0>>
              /\ Cardinality(Written(calls[p])) = Len(cur[p].coords)
              /\ PushesAndMarks(calls[p])
              /\ Keys(cur[p].coords) \subseteq index
        /\ ((~is_seeding) /\ Finished(p, "enqueue")) =>
              IF coord_marshall_int(cur[p].coords[1]) \in cur[p].index0
              THEN calls[p] = <<>>
              ELSE Len(calls[p]) = 2 /\ PushesAndMarks(calls[p])
        /\ ((~is_seeding) /\ Finished(p, "enqueue_batch")) =>
              /\ \A h \in Written(calls[p]) : KeyOf(h) \notin cur[p].index0
              /\ ret[p][2] >= Cardinality({ i \in 1 .. Len(cur[p].coords) :
                                              coord_marshall_int(cur[p].coords[i])
                                                  \in cur[p].index0 })
              /\ Keys(cur[p].coords) \subseteq index

\* Seeding: the second enqueue(C) in a row has pushed a second message for C.
C17_Witness ==
    /\ is_seeding
    /\ EnqueuedTwice(1)
    /\ prev[1].writes = 1
    /\ Len(calls[1]) = 2
    /\ coord_marshall_int(cur[1].coords[1]) \in cur[1].index0
    /\ Cardinality(MessagesOf(cur[1].coords[1])) = 2

\* The coordinates whose keys the step of p adds to or removes from the index.
Touched(p) ==
    IF pc[p] = "enqueue_add_to_flight" THEN { local[p].coord }
    ELSE IF pc[p] = "_write_batch_sadd" THEN Range(local[p].buffer)
    ELSE IF pc[p] \in {"job_done_srem", "jobs_done_srem"}
         THEN { deserialize_coord(msgs[h].body) : h \in Range(local[p].messages) }
         ELSE {}

(* C18: the keys of different valid coordinates differ, and a key fits in   *)
(* 64 bits (three limbs of 21 bits); so the step that marks or unmarks one  *)
(* coordinate leaves the membership of every other coordinate as it was.    *)
C18_KeyInjective ==
    /\ [](\A h1 \in Handles : \A h2 \in Handles :
             (KeyOf(h1) = KeyOf(h2)) =>
                 (deserialize_coord(msgs[h1].body) = deserialize_coord(msgs[h2].body)))
    /\ [](\A k \in index : \A i \in 1 .. 3 : k[i] \in 0 .. ((2 ^ 21) - 1))
    /\ [][\A p \in Procs :
            (pc'[p] # pc[p] /\ index' # index) =>
                \A c \in KeyCoords \ Touched(p) : _inflight(c) <=> _inflight(c)']_vars

\* Two coordinates of the highest zoom whose columns differ only above the
\* 16 low bits are both marked.
C18_Witness ==
    /\ Len(msgs) = 2
    /\ msgs[1].body = serialize_coord(Coord(MaxZoom, 0, 256))
    /\ msgs[2].body = serialize_coord(Coord(MaxZoom, 65536, 256))
    /\ Cardinality(index) = 2

(* C19: the body pushed for a valid coordinate decodes to that coordinate;  *)
(* so the key job_done computes from a message, and removes, is the key     *)
(* enqueue computed from the coordinate, and added, when it pushed it.      *)
C19_RoundTrip ==
    \A p \in Procs :
        /\ (pc[p] = "enqueue_add_to_flight") =>
              \A h \in Written(calls[p]) :
                  /\ deserialize_coord(msgs[h].body) = local[p].coord
                  /\ KeyOf(h) = coord_marshall_int(local[p].coord)
        /\ (pc[p] = "_write_batch_sadd") =>
              { deserialize_coord(msgs[h].body) : h \in calls[p][Len(calls[p])].hs }
                  = Range(local[p].buffer)
        /\ \A i \in CallsOf(p, {"write", "write_batch"}) :
              calls[p][i].ks = { KeyOf(h) : h \in calls[p][i].hs }
        /\ (pc[p] \in {"job_done_delete", "jobs_done_delete"}) =>
              /\ calls[p][1].ks = { KeyOf(h) : h \in Range(local[p].messages) }
              /\ \A h \in Range(local[p].messages) :
                    serialize_coord(deserialize_coord(msgs[h].body)) = msgs[h].body

\* job_done has removed the key that enqueue had added for a coordinate of
\* the highest zoom with different column and row.
C19_Witness ==
    /\ pc[1] = "job_done_delete"
    /\ calls[1][1].c = "srem"
    /\ calls[1][1].ch = 1
    /\ msgs[local[1].messages[1]].body = serialize_coord(Coord(MaxZoom, 65536, 255))
    /\ index = {}

\* Some enqueue has pushed a message of key k and has not marked it yet.
PushToMark(k) ==
    \E p \in Procs :
        pc[p] = "enqueue_add_to_flight" /\ coord_marshall_int(local[p].coord) = k

(* C20: in crash-free runs with seeding off, a message that is pending or   *)
(* delivered, and is not being acknowledged, has the key of its coordinate  *)
(* in the index, except between the push and the mark of an enqueue: an     *)
(* acknowledge made with a stale handle of an earlier message of the        *)
(* coordinate does not unmark the newer job.                                *)
C20_StaleAckKeepsMarker ==
    (~is_seeding) =>
        \A h \in Live :
            ( /\ \A p \in Procs : h \notin Acking(p)
              /\ ~PushToMark(KeyOf(h)) ) => KeyOf(h) \in index

\* Method op of p has ended in a transport failure.
Failed(p, op) == pc[p] = "idle" /\ cur[p].op = op /\ exc[p] = "TransportError"

\* The step in which a method of p ends in a transport failure.
Fails(p) == exc[p] = "running" /\ exc'[p] = "TransportError"

\* A failed enqueue of the one caller: the index is what it was at the call,
\* no key was marked, no message was queued, and the push was tried at most
\* once (not at all when seeding is off and the key was in the index).
EnqueueFailed(p) ==
    Failed(p, "enqueue") =>
        /\ index = cur[p].index0
        /\ CallsOf(p, {"sadd"}) = {}
        /\ Written(calls[p]) = {}
        /\ Cardinality(CallsOf(p, {"write"})) <= 1
        /\ (coord_marshall_int(cur[p].coords[1]) \in cur[p].index0 /\ ~is_seeding)
               => calls[p] = <<>>

\* A failed acknowledge of the one caller: the one call made is the srem
\* that failed, no delete call was made, and the index is what it was.
AckFailed(p) ==
    \A op \in Acks :
        Failed(p, op) =>
            /\ CallsOf(p, Deletes) = {}
            /\ Len(calls[p]) = 1 /\ calls[p][1].c = "srem" /\ calls[p][1].ch = 0
            /\ index = cur[p].index0

\* The step that ends a method in a failure changes neither the queue nor
\* the index, and the method is over: the error is with the caller.
FailurePropagates ==
    [][ \A p \in Procs :
           Fails(p) => /\ msgs' = msgs
                       /\ index' = index
                       /\ pc'[p] = "idle"
                       /\ cur'[p] = cur[p] ]_vars

(* C21: with one caller, a failure of the membership test or of the push    *)
(* inside enqueue ends the call with the error, the push was tried at most  *)
(* once and the index is what it was at the call; a failure of the srem     *)
(* inside job_done or jobs_done ends the call with the error and no message *)
(* is deleted.  No method runs a failed call again.                         *)
C21_FailureNotRetried ==
    /\ [](\A p \in Procs : EnqueueFailed(p) /\ AckFailed(p))
    /\ FailurePropagates

\* An enqueue succeeded and its message was read; the push of the next
\* enqueue failed; then the srem of job_done failed for the message read,
\* which is still in the queue with its key in the index.
C21_Witness ==
    /\ ~is_seeding
    /\ Failed(1, "job_done")
    /\ cur[1].messages[1] \in Live
    /\ KeyOf(cur[1].messages[1]) \in index
    /\ prev[1].op = "enqueue"
    /\ prev[1].exc = "TransportError"
    /\ Len(msgs) = 1

====
